---------------------------- MODULE Spec2Model ----------------------------
(***************************************************************************)
(* A model of monitor.py: the APScheduler interval job that runs           *)
(* check_once, the retrying fetcher fetch_products, the page extractor     *)
(* _fetch_once, the whitespace normalizer fmt and the seen-set file        *)
(* seen_products.json.                                                     *)
(*                                                                         *)
(* Text is a sequence of one-character strings, so that fmt and the        *)
(* fingerprint f"{name}|{price}" are computed and not assumed.             *)
(***************************************************************************)
EXTENDS Integers, Sequences, FiniteSets, TLC

(***************************************************************************)
(* Bounds of the model                                                     *)
(***************************************************************************)
\* the configured list URLS holds between 1 and MaxUrls URLs
MaxUrls == 2
\* the scheduler fires at most MaxCycles runs of check_once
MaxCycles == 2
\* job instances the event loop could hold at once (the scheduler decides
\* how many it admits)
MaxSlots == 2
\* browsers that may be left open before the model stops leaking more
MaxLeaked == 1
\* the longest text fmt is applied to on its own
MaxLen == 4

(***************************************************************************)
(* Program constants                                                       *)
(***************************************************************************)
MAX_RETRIES == 3
\* add_job is called without max_instances: APScheduler's default is 1
max_instances == 1

Slots == 1..MaxSlots

(***************************************************************************)
(* fmt: re.compile(r"\s+").sub(" ", text).strip()                          *)
(***************************************************************************)
Whitespace == {" ", "\t", "\n"}

RECURSIVE SkipSpaces(_)
SkipSpaces(s) ==
    IF s # <<>> /\ Head(s) \in Whitespace THEN SkipSpaces(Tail(s)) ELSE s

RECURSIVE SubSpaces(_)
SubSpaces(s) ==
    IF s = <<>> THEN <<>>
    ELSE IF Head(s) \in Whitespace
         THEN <<" ">> \o SubSpaces(SkipSpaces(s))
         ELSE <<Head(s)>> \o SubSpaces(Tail(s))

RECURSIVE RStrip(_)
RStrip(s) ==
    IF s # <<>> /\ s[Len(s)] \in Whitespace
    THEN RStrip(SubSeq(s, 1, Len(s) - 1))
    ELSE s

Strip(s) == RStrip(SkipSpaces(s))

\* the substitution without the strip
fmtNoStrip(text) == SubSpaces(text)

fmt(text) == Strip(SubSpaces(text))

(***************************************************************************)
(* The listing pages a fetch may render: a page is its table rows, a row   *)
(* its cells' inner texts.                                                 *)
(***************************************************************************)
Row(name, price, avail) == <<name, <<"-">>, price, <<"-">>, avail>>

ShortRow == << <<"a">>, <<"-">>, <<"1">> >>

Pages ==
    << << Row(<<"a">>, <<"1">>, <<"x">>) >>,
       << Row(<<" ", "a", "\n">>, <<"1", "\t">>, <<"y">>) >>,
       << Row(<<"a">>, <<"1">>, <<"x">>), Row(<<"a">>, <<"1">>, <<"y">>) >>,
       << Row(<<"a">>, <<"1">>, <<"x">>), ShortRow, Row(<<"b">>, <<"1">>, <<"x">>) >> >>

PageIds == 1..Len(Pages)

Key(name, price) == name \o <<"|">> \o price

\* a row loop that ends at the first short row
RECURSIVE ProductsBreak(_, _)
ProductsBreak(rows, now) ==
    IF rows = <<>> \/ Len(Head(rows)) < 5 THEN <<>>
    ELSE LET cells == Head(rows)
         IN  << [key       |-> Key(fmt(cells[1]), fmt(cells[3])),
                 name      |-> fmt(cells[1]),
                 price     |-> fmt(cells[3]),
                 available |-> fmt(cells[5]),
                 ts        |-> now] >> \o ProductsBreak(Tail(rows), now)

\* the body of the row loop of _fetch_once
RECURSIVE Products(_, _)
Products(rows, now) ==
    IF rows = <<>> THEN <<>>
    ELSE LET cells == Head(rows)
             rest  == Products(Tail(rows), now)
         IN  IF Len(cells) < 5 THEN rest
             ELSE << [key       |-> Key(fmt(cells[1]), fmt(cells[3])),
                      name      |-> fmt(cells[1]),
                      price     |-> fmt(cells[3]),
                      available |-> fmt(cells[5]),
                      ts        |-> now] >> \o rest

(***************************************************************************)
(* seen_products.json                                                      *)
(***************************************************************************)
Range(s) == {s[k] : k \in 1..Len(s)}

Code(c) ==
    CASE c = "\t" -> 9   [] c = "\n" -> 10  [] c = " " -> 32
      [] c = "-" -> 45   [] c = "1" -> 49   [] c = "a" -> 97
      [] c = "b" -> 98   [] c = "x" -> 120  [] c = "y" -> 121
      [] c = "|" -> 124

\* str.__le__: by code point, a proper prefix first
RECURSIVE StrLeq(_, _)
StrLeq(s, t) ==
    IF s = <<>> THEN TRUE
    ELSE IF t = <<>> THEN FALSE
    ELSE IF Head(s) = Head(t) THEN StrLeq(Tail(s), Tail(t))
    ELSE Code(Head(s)) < Code(Head(t))

RECURSIVE Sorted(_)
Sorted(S) ==
    IF S = {} THEN <<>>
    ELSE LET m == CHOOSE x \in S : \A y \in S : StrLeq(x, y)
         IN  <<m>> \o Sorted(S \ {m})

\* what DATA_FILE can hold: no file; a JSON array of strings; a JSON object
\* (iterating it yields its keys); a JSON number, true, false or null; text
\* that is not JSON (the empty file included)
NoFile == [kind |-> "missing", items |-> <<>>]
JsonArray(items) == [kind |-> "array", items |-> items]
JsonObject(keys) == [kind |-> "object", items |-> keys]
JsonScalar == [kind |-> "scalar", items |-> <<>>]
NotJson == [kind |-> "invalid", items |-> <<>>]

KeyA == Key(<<"a">>, <<"1">>)
KeyB == Key(<<"b">>, <<"1">>)

InitialFiles ==
    { NoFile, JsonArray(<<KeyA>>), JsonObject(<<>>), JsonScalar, NotJson }

\* set(json.loads(DATA_FILE.read_text())) if DATA_FILE.exists() else set()
LoadRaises(file) == file.kind \in {"scalar", "invalid"}
LoadSet(file) == Range(file.items)

\* json.dumps(sorted(new_seen))
Dump(new_seen) == JsonArray(Sorted(new_seen))


(***************************************************************************)
(* State                                                                   *)
(***************************************************************************)
VARIABLES
    nUrls,          \* len(URLS), fixed at start-up
    site,           \* per URL: the page the seller's listing is fixed at, or
                    \* 0 when the listing may change between any two fetches
    dataFile,       \* the content of DATA_FILE
    openBrowsers,   \* browsers launched and not yet closed
    cycles,         \* runs of check_once the scheduler has submitted
    last,           \* the run of check_once that ended last: how it ended,
                    \* whether a URL timed out in it, and the fingerprints
                    \* listed in texts handed to notify by the runs so far
    job,            \* per job instance: the position and locals of check_once
    fmtCall         \* a call of fmt on its own: the text, and the result
                    \* once it has returned

vars == <<nUrls, site, dataFile, openBrowsers, cycles, last, job, fmtCall>>

NoneFetched == [u \in 1..MaxUrls |-> 0]

\* pc: the position in check_once / fetch_products / _fetch_once
\* seen, new_seen, url, attempt, products, added: the locals of the code
\* exc: the exception the try body of _fetch_once is leaving with
\* start, calls, fetched, writes, tries, sleeps, cause: a record of what the
\* run did (the file it loaded, the notify calls, per URL the page fetched or
\* -1 for an exhausted timeout, write_text calls, _fetch_once calls and
\* sleeps of the current fetch_products call, why the run failed), and
\* raised: the kind of the exception that last left _fetch_once in the
\* current fetch_products call
IdleJob ==
    [pc |-> "idle", seen |-> {}, new_seen |-> {}, url |-> 0, attempt |-> 0,
     exc |-> "none", products |-> <<>>, added |-> <<>>,
     start |-> NoFile, calls |-> <<>>, fetched |-> NoneFetched, writes |-> 0,
     tries |-> 0, sleeps |-> 0, cause |-> "none", raised |-> "none"]

NoCall == [text |-> <<>>, result |-> <<>>, returned |-> FALSE]

\* the state after main has started the scheduler, given what the listings do
Start(sites) ==
    /\ nUrls \in 1..MaxUrls
    /\ site \in sites
    /\ dataFile \in InitialFiles
    /\ openBrowsers = 0
    /\ cycles = 0
    /\ last = [status |-> "none", timedout |-> FALSE, sent |-> {}]
    /\ job = [i \in Slots |-> IdleJob]
    /\ fmtCall = NoCall

\* the listings change freely
Init == Start({[u \in 1..MaxUrls |-> 0]})

\* the source data does not change: every listing stays at one page
InitSame == Start([1..MaxUrls -> PageIds])

Running == {i \in Slots : job[i].pc # "idle"}

Step(i, j) ==
    /\ job' = [job EXCEPT ![i] = j]
    /\ UNCHANGED <<nUrls, site, cycles, last, fmtCall>>

(***************************************************************************)
(* main: the interval job                                                  *)
(***************************************************************************)
\* a scheduler that admits a run whatever is in flight
CanSubmitAlways == TRUE

\* the executor admits a run only below max_instances running instances; a
\* tick that finds the job at its limit is dropped and changes nothing
CanSubmit == Cardinality(Running) < max_instances

Tick ==
    /\ cycles < MaxCycles
    /\ CanSubmit
    /\ \E i \in Slots :
        /\ job[i].pc = "idle"
        /\ \A k \in Slots : job[k].pc = "idle" => i <= k
        /\ job' = [job EXCEPT ![i] = [IdleJob EXCEPT !.pc = "load"]]
    /\ cycles' = cycles + 1
    /\ UNCHANGED <<nUrls, site, dataFile, openBrowsers, last, fmtCall>>

TimedOut(j) == \E u \in 1..MaxUrls : j.fetched[u] = -1

\* the fingerprints of the products listed in the texts a run handed to notify
SentKeys(j) ==
    UNION { {Key(j.calls[k].text.lines[n].name, j.calls[k].text.lines[n].price) :
                n \in 1..Len(j.calls[k].text.lines)} : k \in 1..Len(j.calls) }

\* the run's task ends, with a result or an exception: the instance is released
Release(i) ==
    /\ job[i].pc \in {"done", "failed"}
    /\ last' = [status |-> job[i].pc, timedout |-> TimedOut(job[i]),
                sent |-> last.sent \cup SentKeys(job[i])]
    /\ job' = [job EXCEPT ![i] = IdleJob]
    /\ UNCHANGED <<nUrls, site, dataFile, openBrowsers, cycles, fmtCall>>

(***************************************************************************)
(* fetch_products                                                          *)
(***************************************************************************)
\* giving up one attempt early
ExhaustedEarly(attempt) == attempt >= MAX_RETRIES - 1

Exhausted(attempt) == attempt = MAX_RETRIES

\* a handler that catches every exception
CaughtAny(kind) == TRUE

\* except PlaywrightTimeout:
Caught(kind) == kind = "timeout"

\* an exception of `kind` leaves _fetch_once: except PlaywrightTimeout
\* re-raises on the last attempt (check_once then warns) and sleeps
\* otherwise; any other exception leaves fetch_products and check_once
Raised(j, kind) ==
    IF Caught(kind)
    THEN IF Exhausted(j.attempt)
         THEN [j EXCEPT !.pc = "warn", !.exc = "none", !.raised = kind,
                        !.fetched = [@ EXCEPT ![j.url] = -1]]
         ELSE [j EXCEPT !.pc = "sleep", !.exc = "none", !.raised = kind]
    ELSE [j EXCEPT !.pc = "failed", !.exc = "none", !.raised = kind,
                   !.cause = "fetch"]

Sleep(i) ==
    /\ job[i].pc = "sleep"
    /\ Step(i, [job[i] EXCEPT !.pc = "launch", !.attempt = @ + 1,
                              !.sleeps = @ + 1])
    /\ UNCHANGED <<dataFile, openBrowsers>>

(***************************************************************************)
(* _fetch_once                                                             *)
(***************************************************************************)
Kinds == {"timeout", "error"}

Launch(i) ==
    /\ job[i].pc = "launch"
    /\ LET j == [job[i] EXCEPT !.tries = @ + 1]
       IN  \/ /\ Step(i, [j EXCEPT !.pc = "new_context"])
              /\ openBrowsers' = openBrowsers + 1
           \/ /\ \E kind \in Kinds : Step(i, Raised(j, kind))
              /\ UNCHANGED openBrowsers
    /\ UNCHANGED dataFile

\* browser.new_context and context.new_page run before the try statement;
\* they take no timeout, so what they raise is not a PlaywrightTimeout
NewContext(i) ==
    /\ job[i].pc = "new_context"
    /\ \/ Step(i, [job[i] EXCEPT !.pc = "new_page"])
       \/ /\ openBrowsers <= MaxLeaked
          /\ Step(i, Raised(job[i], "error"))
    /\ UNCHANGED <<dataFile, openBrowsers>>

NewPage(i) ==
    /\ job[i].pc = "new_page"
    /\ \/ Step(i, [job[i] EXCEPT !.pc = "goto"])
       \/ /\ openBrowsers <= MaxLeaked
          /\ Step(i, Raised(job[i], "error"))
    /\ UNCHANGED <<dataFile, openBrowsers>>

Goto(i) ==
    /\ job[i].pc = "goto"
    /\ \/ Step(i, [job[i] EXCEPT !.pc = "wait_for_selector"])
       \/ \E kind \in Kinds : Step(i, [job[i] EXCEPT !.pc = "close", !.exc = kind])
    /\ UNCHANGED <<dataFile, openBrowsers>>

WaitForSelector(i) ==
    /\ job[i].pc = "wait_for_selector"
    /\ \/ Step(i, [job[i] EXCEPT !.pc = "rows"])
       \/ \E kind \in Kinds : Step(i, [job[i] EXCEPT !.pc = "close", !.exc = kind])
    /\ UNCHANGED <<dataFile, openBrowsers>>

Served(u) == IF site[u] = 0 THEN PageIds ELSE {site[u]}

\* the row loop over the page the browser rendered
Rows(i) ==
    /\ job[i].pc = "rows"
    /\ \/ \E p \in Served(job[i].url) :
            Step(i, [job[i] EXCEPT !.pc = "close",
                                   !.products = Products(Pages[p], cycles),
                                   !.fetched = [@ EXCEPT ![job[i].url] = p]])
       \/ Step(i, [job[i] EXCEPT !.pc = "close", !.exc = "error"])
    /\ UNCHANGED <<dataFile, openBrowsers>>

\* finally: await browser.close(), then the return or the exception
Close(i) ==
    /\ job[i].pc = "close"
    /\ openBrowsers' = openBrowsers - 1
    /\ IF job[i].exc = "none"
       THEN Step(i, [job[i] EXCEPT !.pc = "diff"])
       ELSE Step(i, Raised(job[i], job[i].exc))
    /\ UNCHANGED dataFile

(***************************************************************************)
(* notify and check_once                                                   *)
(***************************************************************************)
\* the texts handed to notify: the timeout warning naming the URL, and the
\* header naming the URL followed by one line per added product
Warning(url) == [kind |-> "timeout", url |-> url, lines |-> <<>>]

Line(p) == [name |-> p.name, price |-> p.price, available |-> p.available]

\* a text that lists the first added product only
MessageFirst(url, added) ==
    [kind |-> "new", url |-> url, lines |-> <<Line(added[1])>>]

Message(url, added) ==
    [kind |-> "new", url |-> url,
     lines |-> [k \in 1..Len(added) |-> Line(added[k])]]

\* a fingerprint that takes the availability in
IsNewAvailable(p, seen) == (p.key \o <<"|">> \o p.available) \notin seen

\* added = [p for p in products if p["key"] not in seen]
IsNew(p, seen) == p.key \notin seen

\* stopping at the first new product
AddedFirst(products, seen) ==
    LET new == SelectSeq(products, LAMBDA p : IsNew(p, seen))
    IN  IF new = <<>> THEN new ELSE <<new[1]>>

Added(products, seen) == SelectSeq(products, LAMBDA p : IsNew(p, seen))

Keys(products) == {products[k].key : k \in 1..Len(products)}

\* the for loop over URLS moves to the next URL, or ends and the commit follows
NextUrl(j) ==
    IF j.url < nUrls
    THEN [j EXCEPT !.pc = "launch", !.url = @ + 1, !.attempt = 1,
                   !.tries = 0, !.sleeps = 0, !.raised = "none",
                   !.products = <<>>, !.added = <<>>]
    ELSE [j EXCEPT !.pc = "commit", !.raised = "none",
                   !.products = <<>>, !.added = <<>>]

Load(i) ==
    /\ job[i].pc = "load"
    /\ IF LoadRaises(dataFile)
       THEN Step(i, [job[i] EXCEPT !.pc = "failed", !.start = dataFile,
                                   !.cause = "load"])
       ELSE Step(i, NextUrl([job[i] EXCEPT !.start = dataFile,
                                           !.seen = LoadSet(dataFile),
                                           !.new_seen = LoadSet(dataFile)]))
    /\ UNCHANGED <<dataFile, openBrowsers>>

\* await bot.send_message(...): the message is delivered, or the call raises
\* and the exception leaves check_once
Notified(j, text) ==
    NextUrl([j EXCEPT !.calls = Append(@, [text |-> text, ok |-> TRUE])])

\* a failed notify call that still goes on to the commit
NotifyRaisedSaves(j, text) ==
    [j EXCEPT !.pc = "commit", !.cause = "notify",
              !.calls = Append(@, [text |-> text, ok |-> FALSE])]

NotifyRaised(j, text) ==
    [j EXCEPT !.pc = "failed", !.cause = "notify",
              !.calls = Append(@, [text |-> text, ok |-> FALSE])]

\* except PlaywrightTimeout: notify the warning; continue
Warn(i) ==
    /\ job[i].pc = "warn"
    /\ \/ Step(i, Notified(job[i], Warning(job[i].url)))
       \/ Step(i, NotifyRaised(job[i], Warning(job[i].url)))
    /\ UNCHANGED <<dataFile, openBrowsers>>

\* testing membership in the accumulator
SnapshotAccumulator(j) == j.new_seen

\* the set membership is tested in: seen, as loaded
Snapshot(j) == j.seen

\* added is computed; if added: every key is added to new_seen
Diff(i) ==
    /\ job[i].pc = "diff"
    /\ LET added == Added(job[i].products, Snapshot(job[i]))
       IN  IF added # <<>>
           THEN Step(i, [job[i] EXCEPT !.pc = "notify", !.added = added,
                                       !.new_seen = @ \cup Keys(added)])
           ELSE Step(i, NextUrl(job[i]))
    /\ UNCHANGED <<dataFile, openBrowsers>>

Notify(i) ==
    /\ job[i].pc = "notify"
    /\ \/ Step(i, Notified(job[i], Message(job[i].url, job[i].added)))
       \/ Step(i, NotifyRaised(job[i], Message(job[i].url, job[i].added)))
    /\ UNCHANGED <<dataFile, openBrowsers>>

\* DATA_FILE.write_text(json.dumps(sorted(new_seen))): the file is opened
\* for writing, which empties it, and then the text is written
\* writing back the set that was loaded
CommittedLoaded(j) == Dump(j.seen)

\* writing the fingerprints added by this run only
CommittedAdded(j) == Dump(j.new_seen \ j.seen)

Committed(j) == Dump(j.new_seen)

Commit(i) ==
    /\ job[i].pc = "commit"
    /\ dataFile' = NotJson
    /\ Step(i, [job[i] EXCEPT !.pc = "write", !.writes = @ + 1])
    /\ UNCHANGED openBrowsers

Write(i) ==
    /\ job[i].pc = "write"
    /\ dataFile' = Committed(job[i])
    /\ Step(i, [job[i] EXCEPT !.pc = "done"])
    /\ UNCHANGED openBrowsers

(***************************************************************************)
(* The program                                                             *)
(***************************************************************************)
Next ==
    \/ Tick
    \/ \E i \in Slots : Release(i)
    \/ \E i \in Slots : Load(i)
    \/ \E i \in Slots : Launch(i)
    \/ \E i \in Slots : NewContext(i)
    \/ \E i \in Slots : NewPage(i)
    \/ \E i \in Slots : Goto(i)
    \/ \E i \in Slots : WaitForSelector(i)
    \/ \E i \in Slots : Rows(i)
    \/ \E i \in Slots : Close(i)
    \/ \E i \in Slots : Sleep(i)
    \/ \E i \in Slots : Warn(i)
    \/ \E i \in Slots : Diff(i)
    \/ \E i \in Slots : Notify(i)
    \/ \E i \in Slots : Commit(i)
    \/ \E i \in Slots : Write(i)

Spec == Init /\ [][Next]_vars

SpecSame == InitSame /\ [][Next]_vars

(***************************************************************************)
(* The process is killed while a run is in flight, and started again: the  *)
(* file keeps what it held, the runs and the browsers of the process are   *)
(* gone.                                                                   *)
(***************************************************************************)
Crash ==
    /\ \E i \in Slots : job[i].pc \notin {"idle", "done", "failed"}
    /\ last' = [status |-> "crashed", timedout |-> FALSE,
                sent |-> last.sent \cup UNION {SentKeys(job[i]) : i \in Slots}]
    /\ job' = [i \in Slots |-> IdleJob]
    /\ openBrowsers' = 0
    /\ UNCHANGED <<nUrls, site, dataFile, cycles, fmtCall>>

NextCrash == Next \/ Crash

\* the state file is absent or as check_once writes it
InitCrash == Init /\ dataFile.kind \in {"missing", "array"}

SpecCrash == InitCrash /\ [][NextCrash]_vars

\* the first start: no state file
InitFresh == Init /\ dataFile = NoFile

SpecFresh == InitFresh /\ [][Next]_vars

(***************************************************************************)
(* fmt on its own, applied to every text of at most MaxLen characters      *)
(***************************************************************************)
Alphabet == {"a", "b", " ", "\t", "\n"}

InputTexts == UNION {[1..n -> Alphabet] : n \in 0..MaxLen}

InitFmt ==
    /\ nUrls = 1
    /\ site = [u \in 1..MaxUrls |-> 0]
    /\ dataFile = NoFile
    /\ openBrowsers = 0
    /\ cycles = 0
    /\ last = [status |-> "none", timedout |-> FALSE, sent |-> {}]
    /\ job = [i \in Slots |-> IdleJob]
    /\ fmtCall \in {[text |-> t, result |-> <<>>, returned |-> FALSE] : t \in InputTexts}

Format ==
    /\ ~fmtCall.returned
    /\ fmtCall' = [fmtCall EXCEPT !.result = fmt(fmtCall.text), !.returned = TRUE]
    /\ UNCHANGED <<nUrls, site, dataFile, openBrowsers, cycles, last, job>>

SpecFmt == InitFmt /\ [][Format]_vars

(***************************************************************************)
(* Properties                                                              *)
(***************************************************************************)
Ended(j) == j.pc \in {"done", "failed"}

\* the products of the page a run fetched from URL u, and the ones among
\* them whose fingerprint is not in the set the run loaded
PageProducts(j, u) == Products(Pages[j.fetched[u]], 0)

PageAdded(j, u) == SelectSeq(PageProducts(j, u), LAMBDA p : p.key \notin j.seen)

Texts(j) == {j.calls[k].text : k \in 1..Len(j.calls)}

NumCalls(j, text) == Cardinality({k \in 1..Len(j.calls) : j.calls[k].text = text})

\* C1: with source data that does not change, a run of check_once that
\* completes right after a completed run, neither with a timed-out URL,
\* calls notify zero times.
C1_DedupIdempotence ==
    \A i \in Slots :
        ( /\ job[i].pc = "done"
          /\ ~TimedOut(job[i])
          /\ last.status = "done"
          /\ ~last.timedout )
        => job[i].calls = <<>>

\* a second completed run without a notification, after a run that added b|1
C1_Witness ==
    \E i \in Slots :
        /\ job[i].pc = "done"
        /\ ~TimedOut(job[i])
        /\ last.status = "done"
        /\ ~last.timedout
        /\ cycles = 2
        /\ job[i].fetched[1] = 4
        /\ job[i].start = JsonArray(<<KeyA, KeyB>>)
        /\ job[i].calls = <<>>

\* C2: with one configured URL and no state file, once check_once has ended
\* after fetching a page of N products (N distinct fingerprints), notify was
\* called exactly once, with the message listing all the page's products,
\* and the state file holds exactly those N fingerprints.
C2_FirstRun ==
    \A i \in Slots :
        ( /\ nUrls = 1
          /\ Ended(job[i])
          /\ job[i].start = NoFile
          /\ job[i].fetched[1] \in PageIds )
        => LET prods == PageProducts(job[i], 1)
           IN  /\ Len(job[i].calls) = 1
               /\ job[i].calls[1].text = Message(1, prods)
               /\ dataFile.kind = "array"
               /\ Len(dataFile.items) = Cardinality(Keys(prods))
               /\ Range(dataFile.items) = Keys(prods)

\* C3: in a run that ended without a non-timeout fetch error, every URL
\* whose fetch exhausted its retries has exactly one warning naming it, and
\* every other URL was fetched, diffed against the loaded set and notified.
C3_PartialFailureIsolation ==
    \A i \in Slots : \A u \in 1..nUrls :
        ( /\ Ended(job[i])
          /\ job[i].cause # "fetch"
          /\ job[i].fetched[u] = -1 )
        => /\ NumCalls(job[i], Warning(u)) = 1
           /\ \A v \in 1..nUrls :
                /\ job[i].fetched[v] # 0
                /\ job[i].fetched[v] \in PageIds =>
                     IF PageAdded(job[i], v) = <<>>
                     THEN \A t \in Texts(job[i]) : t.url # v
                     ELSE /\ NumCalls(job[i], Message(v, PageAdded(job[i], v))) = 1
                          /\ \A t \in Texts(job[i]) :
                                t.url = v => t = Message(v, PageAdded(job[i], v))

\* C4: when fetch_products raises the timeout to check_once it has called
\* _fetch_once MAX_RETRIES times and slept MAX_RETRIES - 1 times; when it
\* returns, after k <= MAX_RETRIES calls, it has slept k - 1 times and
\* returns the records of the page of the k-th call.
C4_RetryBound ==
    \A i \in Slots :
        /\ job[i].pc = "warn" =>
             /\ job[i].tries = MAX_RETRIES
             /\ job[i].sleeps = MAX_RETRIES - 1
        /\ job[i].pc = "diff" =>
             /\ job[i].tries \in 1..MAX_RETRIES
             /\ job[i].sleeps = job[i].tries - 1
             /\ job[i].products = Products(Pages[job[i].fetched[job[i].url]], cycles)

\* every attempt timed out
C4_Witness ==
    \E i \in Slots :
        /\ job[i].pc = "warn"
        /\ job[i].tries = 3
        /\ job[i].sleeps = 2

\* C5: no text handed to notify lists a product whose name|price is in the
\* seen-set the run loaded, whatever the product's availability or time.
C5_AvailabilityOnly ==
    \A i \in Slots : \A t \in Texts(job[i]) : \A n \in 1..Len(t.lines) :
        (t.lines[n].name \o <<"|">> \o t.lines[n].price)
            \notin Range(job[i].start.items)

\* a|1 was persisted; the page now lists a|1 with availability y; the run
\* completes without a notification
C5_Witness ==
    \E i \in Slots :
        /\ job[i].pc = "done"
        /\ nUrls = 1
        /\ job[i].start = JsonArray(<<KeyA>>)
        /\ job[i].fetched[1] = 2
        /\ job[i].products = <<>>
        /\ job[i].calls = <<>>

\* C6: a run in which a notify call failed, and no fetch raised a
\* non-timeout error, still ends completed, with every URL processed and one
\* commit whose file holds the run's fingerprints.
C6_NotifyFailureNotFatal ==
    \A i \in Slots :
        ( /\ Ended(job[i])
          /\ job[i].cause # "fetch"
          /\ \E k \in 1..Len(job[i].calls) : ~job[i].calls[k].ok )
        => /\ job[i].pc = "done"
           /\ \A u \in 1..nUrls : job[i].fetched[u] # 0
           /\ job[i].writes = 1
           /\ dataFile = Dump(job[i].new_seen)

\* C7: the state file is written at most once per run and only after the
\* last URL; a run that loaded the file and met no fetch failure other than
\* exhausted timeouts has written it exactly once when it ends.
C7_CommitPoint ==
    \A i \in Slots :
        /\ job[i].writes <= 1
        /\ job[i].writes = 1 => job[i].pc \in {"write", "done"} /\ job[i].url = nUrls
        /\ (Ended(job[i]) /\ job[i].cause \notin {"load", "fetch"}) => job[i].writes = 1

\* C8: a run that found a state file that is not a JSON array of strings
\* fails at the load: it fetches nothing, notifies nothing and leaves the
\* file as it was.
C8_CorruptedStateFatal ==
    \A i \in Slots :
        job[i].start.kind \in {"object", "scalar", "invalid"}
        => /\ job[i].pc = "failed"
           /\ job[i].cause = "load"
           /\ job[i].tries = 0
           /\ job[i].fetched = NoneFetched
           /\ job[i].calls = <<>>
           /\ dataFile = job[i].start

InFetchOnce(j) ==
    j.pc \in {"new_context", "new_page", "goto", "wait_for_selector", "rows", "close"}

\* C10: when no _fetch_once call is in progress, no browser is open: every
\* browser a call launched was closed before the call exited.
C10_SessionTeardown ==
    (\A i \in Slots : ~InFetchOnce(job[i])) => openBrowsers = 0

\* C11: once an exception other than a timeout has left _fetch_once, the
\* run has failed with it: fetch_products made no further attempt and did
\* not sleep after the failed attempt, however many attempts remained.
C11_NoRetryOnError ==
    \A i \in Slots :
        job[i].raised = "error"
        => /\ job[i].pc = "failed"
           /\ job[i].cause = "fetch"
           /\ job[i].tries = job[i].attempt
           /\ job[i].sleeps = job[i].tries - 1

\* the first attempt fails with a non-timeout error, two attempts remain
C11_Witness ==
    \E i \in Slots :
        /\ job[i].raised = "error"
        /\ job[i].pc = "failed"
        /\ job[i].tries = 1
        /\ job[i].sleeps = 0
        /\ job[i].calls = <<>>

\* C12: once the process has been killed during a run, the state file
\* holds a complete set (the one before the run or the new one) that the
\* next run can load, never an empty or partial content.
C12_AtomicCommit ==
    (last.status = "crashed" /\ Running = {})
    => dataFile.kind \in {"missing", "array"}

\* C13: with the process killed at any point, (a) as long as a run has not
\* reached its commit, no fingerprint it handed to notify is in the state
\* file, and (b) a completed run has delivered, for every page it fetched,
\* a notification listing every product of the page whose fingerprint was
\* absent from the state file it loaded; so a product notified by a run that
\* stopped before its commit is notified again.
C13_AtLeastOnce ==
    \A i \in Slots :
        /\ (job[i].pc \notin {"idle", "load"} /\ job[i].writes = 0)
           => SentKeys(job[i]) \cap LoadSet(dataFile) = {}
        /\ job[i].pc = "done"
           => \A u \in 1..nUrls :
                job[i].fetched[u] \in PageIds
                => \A n \in 1..Len(PageProducts(job[i], u)) :
                     LET p == PageProducts(job[i], u)[n]
                     IN  p.key \notin LoadSet(job[i].start)
                         => \E k \in 1..Len(job[i].calls) :
                              /\ job[i].calls[k].ok
                              /\ job[i].calls[k].text.url = u
                              /\ Line(p) \in Range(job[i].calls[k].text.lines)

\* the first run notified a|1 and was killed before its commit; the second
\* run finds no state file, notifies a|1 again and completes
C13_Witness ==
    \E i \in Slots :
        /\ nUrls = 1
        /\ cycles = 2
        /\ last.status = "crashed"
        /\ KeyA \in last.sent
        /\ job[i].pc = "done"
        /\ job[i].start = NoFile
        /\ job[i].fetched[1] = 1
        /\ job[i].calls = <<[text |-> Message(1, PageProducts(job[i], 1)), ok |-> TRUE]>>
        /\ dataFile = JsonArray(<<KeyA>>)

\* the rows of a page that have at least five cells, in page order
FullRows(page) == SelectSeq(page, LAMBDA cells : Len(cells) >= 5)

\* C14: what a successful _fetch_once returns is, in page order, one record
\* per row of at least five cells, with the normalized texts of cells 0, 2
\* and 4 (here 1, 3 and 5) and the key name|price; a shorter row adds
\* nothing and raises nothing.
C14_RowFiltering ==
    \A i \in Slots :
        job[i].pc = "diff"
        => LET full == FullRows(Pages[job[i].fetched[job[i].url]])
           IN  /\ job[i].exc = "none"
               /\ Len(job[i].products) = Len(full)
               /\ \A n \in 1..Len(full) :
                    /\ job[i].products[n].name = fmt(full[n][1])
                    /\ job[i].products[n].price = fmt(full[n][3])
                    /\ job[i].products[n].available = fmt(full[n][5])
                    /\ job[i].products[n].key =
                         fmt(full[n][1]) \o <<"|">> \o fmt(full[n][3])

\* the page with a three-cell row between two full rows yields a|1 and b|1
C14_Witness ==
    \E i \in Slots :
        /\ job[i].pc = "diff"
        /\ job[i].fetched[job[i].url] = 4
        /\ Len(Pages[4]) = 3
        /\ Len(Pages[4][2]) = 3
        /\ Len(job[i].products) = 2
        /\ job[i].products[2].key = KeyB

\* the maximal runs of non-whitespace characters of a text, in order
RECURSIVE Word(_)
Word(s) ==
    IF s = <<>> \/ Head(s) \in {" ", "\t", "\n"} THEN <<>>
    ELSE <<Head(s)>> \o Word(Tail(s))

RECURSIVE Words(_)
Words(s) ==
    IF s = <<>> THEN <<>>
    ELSE IF Head(s) \in {" ", "\t", "\n"} THEN Words(Tail(s))
    ELSE <<Word(s)>> \o Words(SubSeq(s, Len(Word(s)) + 1, Len(s)))

\* C15: for every text s, fmt(s) holds no tab or newline, no two
\* consecutive spaces and no leading or trailing space, and its words
\* (hence its non-whitespace characters, in order) are those of s.
C15_Normalized ==
    fmtCall.returned
    => LET r == fmtCall.result
       IN  /\ \A k \in 1..Len(r) : r[k] \notin {"\t", "\n"}
           /\ \A k \in 1..(Len(r) - 1) : ~(r[k] = " " /\ r[k + 1] = " ")
           /\ r # <<>> => (r[1] # " " /\ r[Len(r)] # " ")
           /\ Words(r) = Words(fmtCall.text)
           /\ SelectSeq(r, LAMBDA c : c # " ")
                = SelectSeq(fmtCall.text, LAMBDA c : c \notin {" ", "\t", "\n"})

\* a newline and a tab between two words become one space
C15_Witness ==
    /\ fmtCall.returned
    /\ fmtCall.text = <<"a", "\n", "\t", "b">>
    /\ fmtCall.result = <<"a", " ", "b">>

\* C16: every new-product text handed to notify lists, for its URL, the
\* products of the page fetched from that URL whose fingerprint is absent
\* from the set loaded at the start of the run, whatever earlier URLs of the
\* run added; and the committed file holds each fingerprint once.
C16_SnapshotDiff ==
    \A i \in Slots :
        /\ \A t \in Texts(job[i]) :
             t.kind = "new"
             => t = Message(t.url,
                            SelectSeq(PageProducts(job[i], t.url),
                                      LAMBDA p : p.key \notin LoadSet(job[i].start)))
        /\ job[i].pc = "done"
             => Cardinality(Range(dataFile.items)) = Len(dataFile.items)

\* both URLs list a|1, absent from the loaded set: both notifications list
\* it and the file holds it once
C16_Witness ==
    \E i \in Slots :
        /\ nUrls = 2
        /\ job[i].pc = "done"
        /\ job[i].start = NoFile
        /\ job[i].fetched = <<1, 1>>
        /\ Len(job[i].calls) = 2
        /\ job[i].calls[1].text = Message(1, PageProducts(job[i], 1))
        /\ job[i].calls[2].text = Message(2, PageProducts(job[i], 2))
        /\ dataFile = JsonArray(<<KeyA>>)

\* C17: at most one browser is open at any time, so an attempt is launched
\* only once the browser of the attempt before it is closed; the texts
\* handed to notify are in the order of URLS, at most one per URL; and when
\* a run is at URL v, every URL before v that timed out or listed a new
\* product already has its text handed to notify.
C17_Sequential ==
    /\ openBrowsers <= 1
    /\ \A i \in Slots :
        /\ \A k \in 1..Len(job[i].calls) : \A l \in 1..Len(job[i].calls) :
             k < l => job[i].calls[k].text.url < job[i].calls[l].text.url
        /\ \A u \in 1..nUrls :
             (job[i].pc \notin {"idle", "load"} /\ u < job[i].url)
             => /\ job[i].fetched[u] # 0
                /\ job[i].fetched[u] = -1 => Warning(u) \in Texts(job[i])
                /\ (job[i].fetched[u] \in PageIds /\ PageAdded(job[i], u) # <<>>)
                     => Message(u, PageAdded(job[i], u)) \in Texts(job[i])

\* C18: started without a state file, in every state every fingerprint in
\* the state file is the fingerprint of a product listed in a new-product
\* text handed to notify, by a run that has ended or by one in flight.
C18_SeenWasNotified ==
    LoadSet(dataFile) \subseteq
        (last.sent \cup UNION {SentKeys(job[i]) : i \in Slots})

\* a run that notified a|1 and b|1 has committed both
C18_Witness ==
    \E i \in Slots :
        /\ job[i].pc = "done"
        /\ job[i].start = NoFile
        /\ dataFile = JsonArray(<<KeyA, KeyB>>)
        /\ SentKeys(job[i]) = {KeyA, KeyB}

\* C19: the file a completed run has written holds the set the run loaded
\* united with the fingerprints of the products it notified, so it includes
\* the loaded set, also when every URL timed out.
C19_Monotone ==
    \A i \in Slots :
        job[i].pc = "done"
        => /\ dataFile.kind = "array"
           /\ LoadSet(job[i].start) \subseteq LoadSet(dataFile)
           /\ LoadSet(dataFile) = LoadSet(job[i].start) \cup SentKeys(job[i])

\* every URL timed out: the file holds a|1 as before
C19_Witness ==
    \E i \in Slots :
        /\ job[i].pc = "done"
        /\ \A u \in 1..nUrls : job[i].fetched[u] = -1
        /\ job[i].start = JsonArray(<<KeyA>>)
        /\ dataFile = JsonArray(<<KeyA>>)

\* C20: a run that ended with an error (of the load, of a fetch or of
\* notify) has not written the state file: the file is what the run found.
C20_AbortKeepsState ==
    \A i \in Slots :
        (job[i].pc = "failed" \/ job[i].cause # "none")
        => /\ job[i].writes = 0
           /\ dataFile = job[i].start

\* the second URL fails after the first one's product went into new_seen
C20_Witness ==
    \E i \in Slots :
        /\ job[i].pc = "failed"
        /\ job[i].cause = "fetch"
        /\ job[i].url = 2
        /\ job[i].seen = {}
        /\ job[i].new_seen = {KeyA}
        /\ dataFile = job[i].start

============================================================================
